---------------------------- MODULE Spec2Model ----------------------------
(***************************************************************************)
(* A model of internal/clusterinfo/lookup_peer.go: the LookupPeer          *)
(* connection state machine (Connect / Read / Write / Close / Command) and *)
(* the length-prefixed, size-bounded frame reader readResponseBounded.     *)
(*                                                                         *)
(* Each method is a frame on a per-thread call stack and advances one      *)
(* source line per step, so that orderings inside Command and              *)
(* interleavings of several callers are states of the model.  The         *)
(* transport (net.Conn) and the command serialiser (nsq.Command) are the   *)
(* environment: a dial, a write and the bytes a peer delivers are chosen   *)
(* nondeterministically.                                                   *)
(***************************************************************************)
EXTENDS Integers, Sequences, FiniteSets, TLC

VARIABLES
    state,        \* lp.state
    conn,         \* lp.conn: 0 is the nil interface, else a handle id
    maxBodySize,  \* lp.maxBodySize
    handles,      \* every handle net.DialTimeout returned: [open, wire]
    stack,        \* per thread: the frames of the calls in progress
    ret,          \* per thread: the value the last finished call returned
    trace,        \* per thread: the events of its current (or last) top-level call
    calls,        \* how many top-level calls were started
    prev,         \* the top-level call that finished before the last one
    prevCmd,      \* the Command call that finished before the last call
    okCommands,   \* how many Command calls returned without an error
    crashed,      \* an unrecovered panic ended the program
    cbCount,      \* how often connectCallback was invoked
    transitions   \* how often lp.state went from stateDisconnected to stateConnected

vars == <<state, conn, maxBodySize, handles, stack, ret, trace, calls, prev,
          prevCmd, okCommands, crashed, cbCount, transitions>>

(***************************************************************************)
(* Bounds of the model.                                                    *)
(***************************************************************************)
MaxCalls == 3      \* top-level calls made on the instance
MaxHandles == 2    \* successful dials
MaxLimit == 2      \* maxBodySize is 0 or MaxLimit
MaxBody == 2       \* bytes of body a peer puts on the wire
MaxChunk == 2      \* bytes one conn.Read delivers at most

(***************************************************************************)
(* Program constants.                                                      *)
(***************************************************************************)
stateInit == 0
stateDisconnected == 1
stateConnected == 2
stateSubscribed == 3
stateClosing == 4

NilConn == 0
NilCmd == "nil"
Cmds == {NilCmd, "PING"}
Threads == {1, 2}

Int32Min == -2147483647 - 1
Int32Max == 2147483647

Min(a, b) == IF a < b THEN a ELSE b

(***************************************************************************)
(* encoding/binary, big endian, int32: the four bytes of a length prefix.  *)
(* \div rounds down and % is never negative, so the bytes of a negative v  *)
(* are those of its two's complement.                                      *)
(***************************************************************************)
PutInt32(v) ==
    << (v \div 16777216) % 256, (v \div 65536) % 256, (v \div 256) % 256, v % 256 >>

BigEndianInt32_LittleEndian(b) ==
    (IF b[4] >= 128 THEN b[4] - 256 ELSE b[4]) * 16777216
        + b[3] * 65536 + b[2] * 256 + b[1]

\* line 140: binary.Read(r, binary.BigEndian, &msgSize); the first byte
\* carries the sign
BigEndianInt32(b) ==
    (IF b[1] >= 128 THEN b[1] - 256 ELSE b[1]) * 16777216
        + b[2] * 65536 + b[3] * 256 + b[4]

(***************************************************************************)
(* What a peer delivers on a handle after a command: the bytes that arrive *)
(* before the stream ends, how many bytes one Read delivers at most, and   *)
(* how the stream ends (the peer closes, or the read deadline expires).    *)
(***************************************************************************)
\* The bodies a peer sends: one of each length, its bytes pairwise different.
BodyByte(i) == 170 + i

Bodies == {[i \in 1..n |-> BodyByte(i)] : n \in 0..MaxBody}

DeclaredLengths == {Int32Min, -1, Int32Max} \cup (0..(MaxBody + 1))

Prefix(s, n) == SubSeq(s, 1, Min(n, Len(s)))

Streams ==
    { [bytes |-> Prefix(PutInt32(d) \o b, k), chunk |-> c, end |-> e] :
        d \in DeclaredLengths, b \in Bodies, k \in 0..(4 + MaxBody),
        c \in {1, MaxChunk}, e \in {"EOF", "timeout"} }

ClosedStream == [bytes |-> <<>>, chunk |-> 1, end |-> "closed"]

(***************************************************************************)
(* io.ReadFull(r, buf) with len(buf) = need, reading the stream s from     *)
(* offset pos: Read is called until need bytes have arrived or a Read      *)
(* fails.  n bytes were read in `reads` calls of Read.                     *)
(***************************************************************************)
RECURSIVE ReadAtLeast(_, _, _, _, _)
ReadAtLeast(s, pos, need, n, reads) ==
    IF n >= need
    THEN [n |-> n, err |-> "none", reads |-> reads]
    ELSE IF pos + n >= Len(s.bytes)
         THEN [n |-> n,
               err |-> IF s.end = "EOF"
                       THEN (IF n > 0 THEN "ErrUnexpectedEOF" ELSE "EOF")
                       ELSE s.end,
               reads |-> reads + 1]
         ELSE ReadAtLeast(s, pos,  need,
                          n + Min(s.chunk, Min(need - n, Len(s.bytes) - (pos + n))),
                          reads + 1)

\* r.Read in place of io.ReadFull: whatever one Read delivers is taken.
ReadFull_SingleRead(s, pos, need) ==
    IF need <= 0
    THEN [n |-> 0, err |-> "none", reads |-> 0]
    ELSE IF pos >= Len(s.bytes)
         THEN [n |-> 0, err |-> s.end, reads |-> 1]
         ELSE [n |-> Min(s.chunk, Min(need, Len(s.bytes) - pos)), err |-> "none",
               reads |-> 1]

ReadFull(s, pos, need) == ReadAtLeast(s, pos, need, 0, 0)

\* A buffer of `size` zero bytes after n bytes of s, from offset pos, were
\* read into it.
Filled(s, pos, size, n) ==
    [i \in 1..size |-> IF i <= n THEN s.bytes[pos + i] ELSE 0]

(***************************************************************************)
(* readResponseBounded(r, limit).  kind: "ok" (body returned), "err"       *)
(* (error returned, no body) or "panic" (make with a negative length).     *)
(* consumed: the bytes taken from the stream; reads: the calls of Read.    *)
(***************************************************************************)
SizeCheck_OffByOne(msgSize, limit) == msgSize > limit + 1

\* line 145: if int64(msgSize) > limit
SizeCheck(msgSize, limit) == msgSize > limit

\* line 151: make([]byte, msgSize) panics when msgSize is negative
MakeFails(msgSize) == msgSize < 0

readResponseBounded(s, limit) ==
    LET hdr == ReadFull(s, 0, 4)
    IN  IF hdr.err # "none"
        THEN [kind |-> "err", err |-> hdr.err, body |-> <<>>,
              consumed |-> hdr.n, reads |-> hdr.reads]
        ELSE LET msgSize == BigEndianInt32(Filled(s, 0, 4, hdr.n))
             IN  IF SizeCheck(msgSize, limit)
                 THEN [kind |-> "err", err |-> "size", body |-> <<>>,
                       consumed |-> 4, reads |-> hdr.reads]
                 ELSE IF MakeFails(msgSize)
                 THEN [kind |-> "panic", err |-> "makeslice", body |-> <<>>,
                       consumed |-> 4, reads |-> hdr.reads]
                 ELSE LET b == ReadFull(s, 4, msgSize)
                      IN  IF b.err # "none"
                          THEN [kind |-> "err", err |-> b.err, body |-> <<>>,
                                consumed |-> 4 + b.n, reads |-> hdr.reads + b.reads]
                          ELSE [kind |-> "ok", err |-> "none",
                                body |-> Filled(s, 4, msgSize, b.n),
                                consumed |-> 4 + b.n, reads |-> hdr.reads + b.reads]


(***************************************************************************)
(* The transport.  A handle is what net.DialTimeout returned; Close on it  *)
(* marks it closed, and every later operation on a closed handle fails.    *)
(* A write on an open handle succeeds or fails (reset by the peer, write   *)
(* deadline).                                                              *)
(***************************************************************************)
IsOpen(h) == h \in 1..Len(handles) /\ handles[h].open

WriteResults(h) == IF IsOpen(h) THEN {TRUE, FALSE} ELSE {FALSE}

ReadStreams(h) == IF IsOpen(h) THEN Streams ELSE {ClosedStream}

CloseResult(h) == IF IsOpen(h) THEN "none" ELSE "closed"

Wrote(h, what) ==
    handles' = [handles EXCEPT ![h].wire = Append(@, what)]

(***************************************************************************)
(* Call stack, return values and the record of what a call did.            *)
(***************************************************************************)
NoStream == [bytes |-> <<>>, chunk |-> 0, end |-> "none"]

Ev(e, h, ok, n, s) == [e |-> e, h |-> h, ok |-> ok, n |-> n, s |-> s]

Frame(op, pc, cmd) ==
    [op |-> op, pc |-> pc, cmd |-> cmd, initialState |-> stateInit,
     pre |-> state, h |-> NilConn, err |-> "none"]

\* What a call returned.  A top-level call also records the command it was
\* given and lp.state when it was entered (pre) and when it returned (post).
Result(op, kind, err, body, cmd, pre, post) ==
    [op |-> op, kind |-> kind, err |-> err, body |-> body, cmd |-> cmd,
     pre |-> pre, post |-> post]

NoResult == Result("none", "none", "none", <<>>, NilCmd, stateInit, stateInit)

Top(t) == stack[t][Len(stack[t])]

Idle(t) == stack[t] = <<>>

At(t, op, pc) == ~crashed /\ ~Idle(t) /\ Top(t).op = op /\ Top(t).pc = pc

Goto(t, pc) == stack' = [stack EXCEPT ![t][Len(stack[t])].pc = pc]

Emit(t, e) == trace' = [trace EXCEPT ![t] = Append(@, e)]

\* The error classes of a finished call: the body and the kind of read
\* error are kept for the last call only.
ErrClass(err) ==
    IF err \in {"EOF", "ErrUnexpectedEOF", "timeout", "closed"} THEN "read" ELSE err

Summary(r) == [r EXCEPT !.body = <<>>, !.err = ErrClass(r.err)]

\* A top-level call: a new frame on an empty stack.
Enter(t, op, pc, cmd) ==
    /\ ~crashed
    /\ Idle(t)
    /\ calls < MaxCalls
    /\ calls' = calls + 1
    /\ stack' = [stack EXCEPT ![t] = <<Frame(op, pc, cmd)>>]
    /\ trace' = [trace EXCEPT ![t] = <<>>]
    /\ prev' = IF ret[t].op = "none" THEN prev ELSE Summary(ret[t])
    /\ prevCmd' = IF ret[t].op = "Command" THEN Summary(ret[t]) ELSE prevCmd
    /\ ret' = [ret EXCEPT ![t] = NoResult]

\* A nested call: the caller resumes at `cont` when the callee returns.
Invoke(t, cont, op, pc) ==
    stack' = [stack EXCEPT ![t] =
                 Append([@ EXCEPT ![Len(@)].pc = cont], Frame(op, pc, NilCmd))]

\* return: the frame is popped and the caller, if any, resumes.
Return(t, kind, err, body) ==
    LET f == Top(t)
    IN  /\ stack' = [stack EXCEPT ![t] = SubSeq(@, 1, Len(@) - 1)]
        /\ ret' = [ret EXCEPT ![t] = Result(f.op, kind, err, body, f.cmd, f.pre, state)]
        /\ okCommands' = IF Len(stack[t]) = 1 /\ f.op = "Command" /\ kind = "ok"
                         THEN okCommands + 1
                         ELSE okCommands

\* An unrecovered panic: the program ends inside the top-level call.
Panic(t, why) ==
    LET f == stack[t][1]
    IN  /\ crashed' = TRUE
        /\ stack' = [stack EXCEPT ![t] = <<>>]
        /\ ret' = [ret EXCEPT ![t] = Result(f.op, "panic", why, <<>>, f.cmd, f.pre, state)]
        /\ UNCHANGED okCommands

\* NewLookupPeer without `state: stateDisconnected`: the zero value.
Init_ZeroState ==
    /\ state = stateInit
    /\ conn = NilConn
    /\ maxBodySize \in {0, MaxLimit}
    /\ handles = <<>>
    /\ stack = [t \in Threads |-> <<>>]
    /\ ret = [t \in Threads |-> NoResult]
    /\ trace = [t \in Threads |-> <<>>]
    /\ calls = 0
    /\ prev = NoResult
    /\ prevCmd = NoResult
    /\ okCommands = 0
    /\ crashed = FALSE
    /\ cbCount = 0
    /\ transitions = 0

(***************************************************************************)
(* NewLookupPeer.                                                          *)
(***************************************************************************)
Init ==
    /\ state = stateDisconnected
    /\ conn = NilConn
    /\ maxBodySize \in {0, MaxLimit}
    /\ handles = <<>>
    /\ stack = [t \in Threads |-> <<>>]
    /\ ret = [t \in Threads |-> NoResult]
    /\ trace = [t \in Threads |-> <<>>]
    /\ calls = 0
    /\ prev = NoResult
    /\ prevCmd = NoResult
    /\ okCommands = 0
    /\ crashed = FALSE
    /\ cbCount = 0
    /\ transitions = 0

(***************************************************************************)
(* Connect.                                                                *)
(***************************************************************************)
DialOutcomes == IF Len(handles) < MaxHandles THEN {TRUE, FALSE} ELSE {FALSE}

\* line 67-70: net.DialTimeout
ConnectDial(t) ==
    /\ At(t, "Connect", "n67")
    /\ \E ok \in DialOutcomes :
         IF ok
         THEN /\ handles' = Append(handles, [open |-> TRUE, wire |-> <<>>])
              /\ stack' = [stack EXCEPT ![t][Len(stack[t])].h = Len(handles) + 1,
                                        ![t][Len(stack[t])].pc = "n71"]
              /\ Emit(t, Ev("dial", Len(handles) + 1, TRUE, 0, NoStream))
              /\ UNCHANGED <<ret, okCommands>>
         ELSE /\ Return(t, "err", "dial", <<>>)
              /\ Emit(t, Ev("dial", NilConn, FALSE, 0, NoStream))
              /\ UNCHANGED handles
    /\ UNCHANGED <<state, conn, maxBodySize, crashed, cbCount, transitions>>
    /\ UNCHANGED <<calls, prev, prevCmd>>

ConnectAssign_SetsState(t) ==
    /\ At(t, "Connect", "n71")
    /\ conn' = Top(t).h
    /\ state' = stateConnected
    /\ Return(t, "ok", "none", <<>>)
    /\ UNCHANGED <<maxBodySize, handles, trace, crashed, cbCount, transitions>>
    /\ UNCHANGED <<calls, prev, prevCmd>>

\* line 71-72: lp.conn = conn
ConnectAssign(t) ==
    /\ At(t, "Connect", "n71")
    /\ conn' = Top(t).h
    /\ Return(t, "ok", "none", <<>>)
    /\ UNCHANGED <<state, maxBodySize, handles, trace, crashed, cbCount, transitions>>
    /\ UNCHANGED <<calls, prev, prevCmd>>

(***************************************************************************)
(* Close.                                                                  *)
(***************************************************************************)
CallClose(t) ==
    /\ Enter(t, "Close", "k94", NilCmd)
    /\ UNCHANGED <<state, conn, maxBodySize, handles, okCommands, crashed, cbCount,
                   transitions>>

CloseSetState_KeepsState(t) ==
    /\ At(t, "Close", "k94")
    /\ Goto(t, "k95")
    /\ UNCHANGED <<state, conn, maxBodySize, handles, ret, trace, okCommands, crashed,
                   cbCount, transitions>>
    /\ UNCHANGED <<calls, prev, prevCmd>>

\* line 94
CloseSetState(t) ==
    /\ At(t, "Close", "k94")
    /\ state' = stateDisconnected
    /\ Goto(t, "k95")
    /\ UNCHANGED <<conn, maxBodySize, handles, ret, trace, okCommands, crashed, cbCount,
                   transitions>>
    /\ UNCHANGED <<calls, prev, prevCmd>>

CloseConn_KeepsHandle(t) ==
    /\ At(t, "Close", "k95")
    /\ Return(t, "ok", "none", <<>>)
    /\ UNCHANGED <<state, conn, maxBodySize, handles, trace, crashed, cbCount,
                   transitions>>
    /\ UNCHANGED <<calls, prev, prevCmd>>

\* line 95-98
CloseConn(t) ==
    /\ At(t, "Close", "k95")
    /\ IF conn # NilConn
       THEN /\ handles' = [handles EXCEPT ![conn].open = FALSE]
            /\ Emit(t, Ev("close", conn, IsOpen(conn), 0, NoStream))
            /\ IF CloseResult(conn) = "none"
               THEN Return(t, "ok", "none", <<>>)
               ELSE Return(t, "err", CloseResult(conn), <<>>)
       ELSE /\ Return(t, "ok", "none", <<>>)
            /\ UNCHANGED <<handles, trace>>
    /\ UNCHANGED <<state, conn, maxBodySize, crashed, cbCount, transitions>>
    /\ UNCHANGED <<calls, prev, prevCmd>>

(***************************************************************************)
(* Command.                                                                *)
(***************************************************************************)
CallCommand(t, c) ==
    /\ Enter(t, "Command", "c108", c)
    /\ UNCHANGED <<state, conn, maxBodySize, handles, okCommands, crashed, cbCount,
                   transitions>>

\* line 108: initialState := lp.state
CommandInitialState(t) ==
    /\ At(t, "Command", "c108")
    /\ stack' = [stack EXCEPT ![t][Len(stack[t])].initialState = state,
                              ![t][Len(stack[t])].pc = "c109"]
    /\ UNCHANGED <<state, conn, maxBodySize, handles, ret, trace, okCommands, crashed,
                   cbCount, transitions>>
    /\ UNCHANGED <<calls, prev, prevCmd>>

NeedsConnect_Always(s) == TRUE

NeedsConnect(s) == s # stateConnected

\* line 109-110: if lp.state != stateConnected { err := lp.Connect()
CommandCheckState(t) ==
    /\ At(t, "Command", "c109")
    /\ IF NeedsConnect(state)
       THEN Invoke(t, "c111", "Connect", "n67")
       ELSE Goto(t, "c120")
    /\ UNCHANGED <<state, conn, maxBodySize, handles, ret, trace, okCommands, crashed,
                   cbCount, transitions>>
    /\ UNCHANGED <<calls, prev, prevCmd>>

ConnectFailed_Ignored(r) == FALSE

ConnectFailed(r) == r.err # "none"

\* line 111-113: if err != nil { return nil, err }
CommandConnectResult(t) ==
    /\ At(t, "Command", "c111")
    /\ IF ConnectFailed(ret[t])
       THEN Return(t, "err", ret[t].err, <<>>)
       ELSE Goto(t, "c114") /\ UNCHANGED <<ret, okCommands>>
    /\ UNCHANGED <<state, conn, maxBodySize, handles, trace, crashed, cbCount,
                   transitions>>
    /\ UNCHANGED <<calls, prev, prevCmd>>

CommandSetConnected_Forgotten(t) ==
    /\ At(t, "Command", "c114")
    /\ Goto(t, "c115")
    /\ UNCHANGED <<state, conn, maxBodySize, handles, ret, trace, okCommands, crashed,
                   cbCount, transitions>>
    /\ UNCHANGED <<calls, prev, prevCmd>>

\* line 114: lp.state = stateConnected
CommandSetConnected(t) ==
    /\ At(t, "Command", "c114")
    /\ state' = stateConnected
    /\ transitions' = IF state = stateDisconnected THEN transitions + 1 ELSE transitions
    /\ Goto(t, "c115")
    /\ UNCHANGED <<conn, maxBodySize, handles, ret, trace, okCommands, crashed, cbCount>>
    /\ UNCHANGED <<calls, prev, prevCmd>>

\* line 115: lp.Write(nsq.MagicV1), its result dropped
CommandWriteMagic(t) ==
    /\ At(t, "Command", "c115")
    /\ IF conn = NilConn
       THEN /\ Panic(t, "nil conn")
            /\ UNCHANGED <<handles, trace>>
       ELSE /\ \E ok \in WriteResults(conn) :
                 /\ IF ok THEN Wrote(conn, "magic") ELSE UNCHANGED handles
                 /\ Emit(t, Ev("magic", conn, ok, 0, NoStream))
            /\ Goto(t, "c116")
            /\ UNCHANGED <<ret, okCommands, crashed>>
    /\ UNCHANGED <<state, conn, maxBodySize, cbCount, transitions>>
    /\ UNCHANGED <<calls, prev, prevCmd>>

NotifiesReconnect_FromInit(initialState) == initialState = stateInit

NotifiesReconnect(initialState) == initialState = stateDisconnected

\* line 116-117: if initialState == stateDisconnected { lp.connectCallback(lp) }
CommandCallback(t) ==
    /\ At(t, "Command", "c116")
    /\ IF NotifiesReconnect(Top(t).initialState)
       THEN /\ Invoke(t, "c120", "connectCallback", "cb")
            /\ cbCount' = cbCount + 1
            /\ Emit(t, Ev("callback", conn, TRUE, 0, NoStream))
       ELSE /\ Goto(t, "c120")
            /\ UNCHANGED <<cbCount, trace>>
    /\ UNCHANGED <<state, conn, maxBodySize, handles, ret, okCommands, crashed, transitions>>
    /\ UNCHANGED <<calls, prev, prevCmd>>

\* the caller's handler returns
CallbackReturn(t) ==
    /\ At(t, "connectCallback", "cb")
    /\ Return(t, "ok", "none", <<>>)
    /\ UNCHANGED <<state, conn, maxBodySize, handles, trace, crashed, cbCount,
                   transitions>>
    /\ UNCHANGED <<calls, prev, prevCmd>>

IsNilCmd_Never(cmd) == FALSE

IsNilCmd(cmd) == cmd = NilCmd

\* line 120-122: if cmd == nil { return nil, nil }
CommandNilCheck(t) ==
    /\ At(t, "Command", "c120")
    /\ IF IsNilCmd(Top(t).cmd)
       THEN Return(t, "ok", "none", <<>>)
       ELSE Goto(t, "c123") /\ UNCHANGED <<ret, okCommands>>
    /\ UNCHANGED <<state, conn, maxBodySize, handles, trace, crashed, cbCount,
                   transitions>>
    /\ UNCHANGED <<calls, prev, prevCmd>>

\* line 123-124: _, err := cmd.WriteTo(lp)
CommandWriteCmd(t) ==
    /\ At(t, "Command", "c123")
    /\ IF conn = NilConn
       THEN /\ Panic(t, "nil conn")
            /\ UNCHANGED <<handles, trace>>
       ELSE /\ \E ok \in WriteResults(conn) :
                 /\ IF ok THEN Wrote(conn, Top(t).cmd) ELSE UNCHANGED handles
                 /\ Emit(t, Ev("cmd", conn, ok, 0, NoStream))
                 /\ stack' = [stack EXCEPT
                       ![t][Len(stack[t])].pc = IF ok THEN "c128" ELSE "c125",
                       ![t][Len(stack[t])].err = IF ok THEN "none" ELSE "write"]
            /\ UNCHANGED <<ret, okCommands, crashed>>
    /\ UNCHANGED <<state, conn, maxBodySize, cbCount, transitions>>
    /\ UNCHANGED <<calls, prev, prevCmd>>

CommandCloseOnError_Skipped(t) ==
    /\ \/ At(t, "Command", "c125")
       \/ At(t, "Command", "c130")
    /\ Goto(t, "c126")
    /\ UNCHANGED <<state, conn, maxBodySize, handles, ret, trace, okCommands, crashed,
                   cbCount, transitions>>
    /\ UNCHANGED <<calls, prev, prevCmd>>

\* line 125 and 130: lp.Close(), its result dropped
CommandCloseOnError(t) ==
    /\ \/ At(t, "Command", "c125")
       \/ At(t, "Command", "c130")
    /\ Invoke(t, "c126", "Close", "k94")
    /\ UNCHANGED <<state, conn, maxBodySize, handles, ret, trace, okCommands, crashed,
                   cbCount, transitions>>
    /\ UNCHANGED <<calls, prev, prevCmd>>

\* line 126 and 131: return nil, err
CommandReturnError(t) ==
    /\ At(t, "Command", "c126")
    /\ Return(t, "err", Top(t).err, <<>>)
    /\ UNCHANGED <<state, conn, maxBodySize, handles, trace, crashed, cbCount,
                   transitions>>
    /\ UNCHANGED <<calls, prev, prevCmd>>

\* line 128-133: resp, err := readResponseBounded(lp, lp.maxBodySize)
CommandReadResponse(t) ==
    /\ At(t, "Command", "c128")
    /\ IF conn = NilConn
       THEN /\ Panic(t, "nil conn")
            /\ UNCHANGED trace
       ELSE \E s \in ReadStreams(conn) :
              LET r == readResponseBounded(s, maxBodySize)
              IN  /\ Emit(t, Ev("frame", conn, r.kind = "ok", r.consumed, s))
                  /\ CASE r.kind = "panic" ->
                            Panic(t, r.err)
                       [] r.kind = "err" ->
                            /\ stack' = [stack EXCEPT
                                  ![t][Len(stack[t])].pc = "c130",
                                  ![t][Len(stack[t])].err = r.err]
                            /\ UNCHANGED <<ret, okCommands, crashed>>
                       [] OTHER ->
                            /\ Return(t, "ok", "none", r.body)
                            /\ UNCHANGED crashed
    /\ UNCHANGED <<state, conn, maxBodySize, handles, cbCount, transitions>>
    /\ UNCHANGED <<calls, prev, prevCmd>>

(***************************************************************************)
(* One caller driving the instance through Command and Close.              *)
(***************************************************************************)
Step(t) ==
    \/ \E c \in Cmds : CallCommand(t, c)
    \/ CallClose(t)
    \/ CommandInitialState(t)
    \/ CommandCheckState(t)
    \/ ConnectDial(t)
    \/ ConnectAssign(t)
    \/ CommandConnectResult(t)
    \/ CommandSetConnected(t)
    \/ CommandWriteMagic(t)
    \/ CommandCallback(t)
    \/ CallbackReturn(t)
    \/ CommandNilCheck(t)
    \/ CommandWriteCmd(t)
    \/ CommandCloseOnError(t)
    \/ CommandReturnError(t)
    \/ CommandReadResponse(t)
    \/ CloseSetState(t)
    \/ CloseConn(t)

Next == Step(1)

Spec == Init /\ [][Next]_vars

TypeOK ==
    /\ state \in {stateInit, stateDisconnected, stateConnected, stateSubscribed,
                  stateClosing}
    /\ conn \in 0..Len(handles)
    /\ maxBodySize \in 0..MaxLimit
    /\ Len(handles) <= MaxHandles
    /\ calls \in 0..MaxCalls
    /\ okCommands \in 0..calls
    /\ crashed \in BOOLEAN
    /\ cbCount \in Nat
    /\ transitions \in Nat

(***************************************************************************)
(* The other exported methods, called directly: Connect, Read and Write.   *)
(***************************************************************************)
CallConnect(t) ==
    /\ Enter(t, "Connect", "n67", NilCmd)
    /\ UNCHANGED <<state, conn, maxBodySize, handles, okCommands, crashed, cbCount,
                   transitions>>

CallRead(t) ==
    /\ Enter(t, "Read", "r82", NilCmd)
    /\ UNCHANGED <<state, conn, maxBodySize, handles, okCommands, crashed, cbCount,
                   transitions>>

CallWrite(t) ==
    /\ Enter(t, "Write", "w88", NilCmd)
    /\ UNCHANGED <<state, conn, maxBodySize, handles, okCommands, crashed, cbCount,
                   transitions>>

\* line 82-83: one conn.Read into the caller's buffer; a nil conn panics
ReadConn(t) ==
    /\ At(t, "Read", "r82")
    /\ IF conn = NilConn
       THEN /\ Panic(t, "nil conn")
            /\ UNCHANGED trace
       ELSE /\ \E s \in ReadStreams(conn) :
                 LET n == Min(s.chunk, Len(s.bytes))
                 IN  /\ Emit(t, Ev("read", conn, n > 0, n, NoStream))
                     /\ IF n > 0
                        THEN Return(t, "ok", "none", <<>>)
                        ELSE Return(t, "err", s.end, <<>>)
            /\ UNCHANGED crashed
    /\ UNCHANGED <<state, conn, maxBodySize, handles, cbCount, transitions>>
    /\ UNCHANGED <<calls, prev, prevCmd>>

\* line 88-89: one conn.Write of the caller's data; a nil conn panics
WriteConn(t) ==
    /\ At(t, "Write", "w88")
    /\ IF conn = NilConn
       THEN /\ Panic(t, "nil conn")
            /\ UNCHANGED <<handles, trace>>
       ELSE /\ \E ok \in WriteResults(conn) :
                 /\ IF ok THEN Wrote(conn, "data") ELSE UNCHANGED handles
                 /\ Emit(t, Ev("write", conn, ok, 0, NoStream))
                 /\ IF ok
                    THEN Return(t, "ok", "none", <<>>)
                    ELSE Return(t, "err", "write", <<>>)
            /\ UNCHANGED crashed
    /\ UNCHANGED <<state, conn, maxBodySize, cbCount, transitions>>
    /\ UNCHANGED <<calls, prev, prevCmd>>

(***************************************************************************)
(* One caller driving the instance through every exported method.          *)
(***************************************************************************)
StepAPI(t) ==
    \/ Step(t)
    \/ CallConnect(t)
    \/ CallRead(t)
    \/ CallWrite(t)
    \/ ReadConn(t)
    \/ WriteConn(t)

NextAPI == StepAPI(1)

SpecAPI == Init /\ [][NextAPI]_vars

(***************************************************************************)
(* Two callers using one instance with no serialization: each makes       *)
(* Command calls, and their steps interleave line by line (lp.state and    *)
(* lp.conn are read and written with no lock).  One call for each caller   *)
(* is enough for two calls to overlap, and the calls pass a nil command,   *)
(* so that each runs lines 108-121: the connect block and nothing else.    *)
(***************************************************************************)
CallCommandUnserialized(t, c) ==
    /\ calls < Cardinality(Threads)
    /\ CallCommand(t, c)

StepConc(t) ==
    \/ \E c \in {NilCmd} : CallCommandUnserialized(t, c)
    \/ CommandInitialState(t)
    \/ CommandCheckState(t)
    \/ ConnectDial(t)
    \/ ConnectAssign(t)
    \/ CommandConnectResult(t)
    \/ CommandSetConnected(t)
    \/ CommandWriteMagic(t)
    \/ CommandCallback(t)
    \/ CallbackReturn(t)
    \/ CommandNilCheck(t)

NextConc == \E t \in Threads : StepConc(t)

SpecConc == Init /\ [][NextConc]_vars

(***************************************************************************)
(* A reconnect handler that uses the instance it is given: line 117 passes *)
(* lp to connectCallback, which may call lp.Command before it returns.     *)
(* The handler makes at most one such call each time it runs.  The caller  *)
(* issues Command until the instance has dialed its first handle.          *)
(***************************************************************************)
CallCommandUnconnected(t, c) ==
    /\ handles = <<>>
    /\ CallCommand(t, c)

HandlerCallsCommand(t, c) ==
    /\ At(t, "connectCallback", "cb")
    /\ stack' = [stack EXCEPT ![t] =
                    Append([@ EXCEPT ![Len(@)].pc = "cbret"], Frame("Command", "c108", c))]
    /\ Emit(t, Ev("inner", conn, TRUE, 0, NoStream))
    /\ UNCHANGED <<state, conn, maxBodySize, handles, ret, okCommands, crashed, cbCount,
                   transitions>>
    /\ UNCHANGED <<calls, prev, prevCmd>>

\* the handler returns after its Command returned
HandlerReturn(t) ==
    /\ At(t, "connectCallback", "cbret")
    /\ Return(t, "ok", "none", <<>>)
    /\ UNCHANGED <<state, conn, maxBodySize, handles, trace, crashed, cbCount,
                   transitions>>
    /\ UNCHANGED <<calls, prev, prevCmd>>

StepReentrant(t) ==
    \/ \E c \in Cmds : CallCommandUnconnected(t, c)
    \/ CommandInitialState(t)
    \/ CommandCheckState(t)
    \/ ConnectDial(t)
    \/ ConnectAssign(t)
    \/ CommandConnectResult(t)
    \/ CommandSetConnected(t)
    \/ CommandWriteMagic(t)
    \/ CommandCallback(t)
    \/ CallbackReturn(t)
    \/ CommandNilCheck(t)
    \/ CommandWriteCmd(t)
    \/ CommandCloseOnError(t)
    \/ CommandReturnError(t)
    \/ CommandReadResponse(t)
    \/ CloseSetState(t)
    \/ CloseConn(t)
    \/ \E c \in Cmds : HandlerCallsCommand(t, c)
    \/ HandlerReturn(t)

NextReentrant == StepReentrant(1)

SpecReentrant == Init /\ [][NextReentrant]_vars

(***************************************************************************)
(* The calls of Spec, with every started step finishing: each dial, write  *)
(* and read on the transport returns (the deadline of lines 67, 82 and 88  *)
(* ends it), and so does the caller's handler.  The caller is free to stop *)
(* calling.                                                                *)
(***************************************************************************)
Run(t) ==
    \/ CommandInitialState(t)
    \/ CommandCheckState(t)
    \/ ConnectDial(t)
    \/ ConnectAssign(t)
    \/ CommandConnectResult(t)
    \/ CommandSetConnected(t)
    \/ CommandWriteMagic(t)
    \/ CommandCallback(t)
    \/ CallbackReturn(t)
    \/ CommandNilCheck(t)
    \/ CommandWriteCmd(t)
    \/ CommandCloseOnError(t)
    \/ CommandReturnError(t)
    \/ CommandReadResponse(t)
    \/ CloseSetState(t)
    \/ CloseConn(t)

SpecLive == Init /\ [][Next]_vars /\ WF_vars(Run(1))

(***************************************************************************)
(* What the single caller of Spec observes.  A call has ended when the     *)
(* caller's stack is empty again: ret holds what it returned (or the       *)
(* panic that ended it) and trace holds what it did, in order.             *)
(***************************************************************************)
Caller == CHOOSE t \in Threads : \A u \in Threads : t <= u

Last == ret[Caller]

Events == trace[Caller]

Ended(op) == Idle(Caller) /\ Last.op = op

Returned(op) == Ended(op) /\ Last.kind # "panic"

Idx(e) == {i \in DOMAIN Events : Events[i].e = e}

N(e) == Cardinality(Idx(e))

\* A Command with a command that failed writing it or reading the response.
ExchangeFailure(r) ==
    /\ r.op = "Command"
    /\ r.cmd # NilCmd
    /\ r.kind = "err"
    /\ ErrClass(r.err) \in {"write", "read", "size"}

\* The length the peer declared, as the peer encoded it.
Declares(s, d) == Len(s.bytes) >= 4 /\ SubSeq(s.bytes, 1, 4) = PutInt32(d)

\* The peer sent exactly the frame of body b.
FrameOf(s, b) == s.bytes = PutInt32(Len(b)) \o b

MagicOn(h) == \E i \in DOMAIN handles[h].wire : handles[h].wire[i] = "magic"

C3_NotifyOncePerTransition ==
    /\ cbCount <= transitions
    /\ transitions <= cbCount + 1
    /\ Idle(Caller) => cbCount = transitions
    /\ (Ended("Command") /\ Last.pre = stateConnected) =>
           (N("dial") = 0 /\ N("magic") = 0 /\ N("callback") = 0)

C3_Witness ==
    /\ Ended("Command")
    /\ Last.pre = stateConnected
    /\ transitions = 2
    /\ cbCount = 2

(***************************************************************************)
(* C4: between calls, state == Connected implies that the instance holds a *)
(* handle and that the magic preamble was written on that handle.          *)
(***************************************************************************)
C4_ConnectedImpliesMagicSent ==
    (Idle(Caller) /\ state = stateConnected) => (conn # NilConn /\ MagicOn(conn))

(***************************************************************************)
(* C5: Close on an instance that never dialed returns no error, and a      *)
(* Close that directly follows a Close returns no error and does not       *)
(* panic.                                                                  *)
(***************************************************************************)
C5_CloseIdempotent ==
    Ended("Close") =>
        /\ handles = <<>> => Last.kind = "ok"
        /\ prev.op = "Close" => Last.kind = "ok"

(***************************************************************************)
(* C6: when the peer declares a negative length, the frame reader returns  *)
(* a framing-size error: Command ends with that error and never with the   *)
(* panic of an allocation of negative size.                                *)
(***************************************************************************)
C6_NegativeLengthIsFramingError ==
    \A i \in Idx("frame"), d \in DeclaredLengths :
        (Ended("Command") /\ d < 0 /\ Declares(Events[i].s, d)) =>
            (Last.kind = "err" /\ Last.err = "size")

(***************************************************************************)
(* C7: when the peer declares a length above maxBodySize, Command returns  *)
(* the size-limit error having read the four bytes of the length only, the *)
(* handle is closed and the state Disconnected, and a write or a read on   *)
(* that handle can only fail.                                              *)
(***************************************************************************)
C7_OversizeClosesConnection ==
    \A i \in Idx("frame"), d \in DeclaredLengths :
        (Ended("Command") /\ d > maxBodySize /\ Declares(Events[i].s, d)) =>
            /\ Last.kind = "err"
            /\ Last.err = "size"
            /\ Events[i].n = 4
            /\ state = stateDisconnected
            /\ conn = Events[i].h
            /\ ~IsOpen(conn)
            /\ WriteResults(conn) = {FALSE}
            /\ ReadStreams(conn) = {ClosedStream}

C7_Witness ==
    /\ Returned("Command")
    /\ Last.err = "size"
    /\ \E i \in Idx("frame") :
          /\ Len(Events[i].s.bytes) > 4
          /\ Declares(Events[i].s, Len(Events[i].s.bytes) - 4)
          /\ Events[i].n = 4
    /\ ~IsOpen(conn)

(***************************************************************************)
(* C8: when the peer answers a command with the frame of a body of at most *)
(* maxBodySize bytes, Command returns that body and no error, and the      *)
(* state is Connected on the handle the exchange used, still open.         *)
(***************************************************************************)
C8_FramedBodyReturned ==
    \A i \in Idx("frame"), b \in Bodies :
        (Ended("Command") /\ Len(b) <= maxBodySize /\ FrameOf(Events[i].s, b)) =>
            /\ Last.kind = "ok"
            /\ Last.err = "none"
            /\ Last.body = b
            /\ Len(Last.body) = Len(b)
            /\ state = stateConnected
            /\ conn = Events[i].h
            /\ IsOpen(conn)
            /\ \A w \in Idx("cmd") : Events[w].h = conn

C8_Witness ==
    /\ Returned("Command")
    /\ Last.kind = "ok"
    /\ Len(Last.body) = 2
    /\ Last.body[1] # Last.body[2]
    /\ Len(Last.body) = maxBodySize
    /\ \E i \in Idx("frame") : FrameOf(Events[i].s, Last.body) /\ Events[i].s.chunk = 1

C8_WitnessEmpty ==
    /\ Returned("Command")
    /\ Last.kind = "ok"
    /\ Last.cmd # NilCmd
    /\ Last.body = <<>>
    /\ maxBodySize = 0

(***************************************************************************)
(* C9: a Command with a nil command dials exactly when the state is not    *)
(* Connected, writes no command and reads no frame; unless the dial fails  *)
(* it returns an empty result and no error, with the state Connected and   *)
(* the handle open.                                                        *)
(***************************************************************************)
C9_NilCommandOnlyConnects ==
    (Ended("Command") /\ Last.cmd = NilCmd) =>
        /\ N("dial") = (IF Last.pre # stateConnected THEN 1 ELSE 0)
        /\ N("cmd") = 0
        /\ N("frame") = 0
        /\ (\A i \in Idx("dial") : Events[i].ok) =>
               /\ Last.kind = "ok"
               /\ Last.err = "none"
               /\ Last.body = <<>>
               /\ state = stateConnected
               /\ conn # NilConn
               /\ IsOpen(conn)

C9_Witness ==
    /\ Returned("Command")
    /\ Last.cmd = NilCmd
    /\ Last.kind = "ok"
    /\ Last.pre = stateConnected
    /\ prev.op = "Command"
    /\ prev.cmd = NilCmd
    /\ prev.pre = stateDisconnected
    /\ prev.kind = "ok"

(***************************************************************************)
(* C10: a Command call dials at most once; when the dial fails it returns  *)
(* the dial error having done nothing else: the state is as it was and not *)
(* Connected, no magic preamble and no command was written and the         *)
(* reconnect handler was not invoked.                                      *)
(***************************************************************************)
C10_NoRetryOnDialFailure ==
    /\ N("dial") <= 1
    /\ \A i \in Idx("dial") :
          (Ended("Command") /\ ~Events[i].ok) =>
              /\ Last.kind = "err"
              /\ Last.err = "dial"
              /\ Len(Events) = 1
              /\ state = Last.pre
              /\ state # stateConnected

C10_Witness ==
    /\ Returned("Command")
    /\ Last.err = "dial"
    /\ Last.cmd # NilCmd
    /\ Len(handles) < MaxHandles
    /\ N("dial") = 1


(***************************************************************************)
(* The handles the instance opened and has not closed.                     *)
(***************************************************************************)
LiveHandles == {h \in DOMAIN handles : handles[h].open}

(***************************************************************************)
(* C11: between calls of Connect, Command and Close at most one handle     *)
(* opened by the instance is live, and a live handle is the one the        *)
(* instance holds: Connect leaves no open handle orphaned.                 *)
(***************************************************************************)
C11_AtMostOneLiveHandle ==
    Idle(Caller) =>
        /\ Cardinality(LiveHandles) <= 1
        /\ \A h \in LiveHandles : h = conn

(***************************************************************************)
(* C14: no step of Connect changes lp.state, a Connect that fails leaves   *)
(* lp.conn as it was (lp.conn changes only in the step that returns nil),  *)
(* and lp.state changes only inside Command and Close.                     *)
(***************************************************************************)
InCall(op) == ~Idle(Caller) /\ Top(Caller).op = op

C14_ConnectKeepsState ==
    [][ /\ InCall("Connect") =>
              /\ state' = state
              /\ conn' # conn => (ret'[Caller].op = "Connect" /\ ret'[Caller].kind = "ok")
              /\ ret'[Caller].kind = "err" => conn' = conn
        /\ state' # state => (InCall("Command") \/ InCall("Close")) ]_vars

C14_Witness ==
    /\ Ended("Connect")
    /\ Last.kind = "ok"
    /\ Last.pre = stateConnected
    /\ state = stateConnected
    /\ prev.op = "Command"
    /\ Cardinality(LiveHandles) = 2

(***************************************************************************)
(* C16: lp.state is stateDisconnected or stateConnected in every state     *)
(* reached by calls of Connect, Read, Write, Command and Close.            *)
(***************************************************************************)
C16_OnlyTwoStates == state \in {stateDisconnected, stateConnected}

C16_Witness ==
    /\ Ended("Write")
    /\ Last.kind = "ok"
    /\ prev.op = "Read"
    /\ prev.kind = "ok"
    /\ state = stateConnected

(***************************************************************************)
(* C12: on every handle the magic preamble is the first thing written and  *)
(* is written exactly once: no command is on a handle without the magic    *)
(* preamble before it.                                                     *)
(***************************************************************************)
C12_MagicFirstAndOnce ==
    \A h \in DOMAIN handles :
        LET w == handles[h].wire
        IN  w # <<>> =>
                /\ w[1] = "magic"
                /\ Cardinality({i \in DOMAIN w : w[i] = "magic"}) = 1

(***************************************************************************)
(* C13: when the stream ends or fails after the length prefix and before   *)
(* the declared number of body bytes has arrived, Command returns an error *)
(* and no body, with the state Disconnected and the handle closed; and a   *)
(* body that Command returns after a frame read has exactly the declared   *)
(* length and is the bytes that followed the prefix.                       *)
(***************************************************************************)
C13_NoPartialBody ==
    \A i \in Idx("frame"), d \in DeclaredLengths :
        (Ended("Command") /\ Declares(Events[i].s, d)) =>
            /\ (0 <= d /\ d <= maxBodySize /\ Len(Events[i].s.bytes) < 4 + d) =>
                   /\ Last.kind = "err"
                   /\ Last.err \in {"EOF", "ErrUnexpectedEOF", "timeout"}
                   /\ Last.body = <<>>
                   /\ state = stateDisconnected
                   /\ ~IsOpen(conn)
            /\ Last.kind = "ok" =>
                   /\ Len(Last.body) = d
                   /\ Events[i].n = 4 + d
                   /\ Last.body = SubSeq(Events[i].s.bytes, 5, 4 + d)

C13_Witness ==
    /\ Returned("Command")
    /\ Last.err = "ErrUnexpectedEOF"
    /\ Last.body = <<>>
    /\ \E i \in Idx("frame") :
          /\ Declares(Events[i].s, 2)
          /\ Len(Events[i].s.bytes) = 5
          /\ Events[i].s.chunk = 1
          /\ Events[i].n = 5


(***************************************************************************)
(* C15: two Command calls on one instance that are not serialized can both *)
(* observe a state other than Connected and both dial.  Whenever both      *)
(* callers dialed and returned, two handles were opened and both are still *)
(* open, the instance holds only one of them (the other was overwritten    *)
(* without being closed), and the handler ran twice for the one transition *)
(* Disconnected -> Connected the instance made.                            *)
(***************************************************************************)
Dialed(t) == \E i \in DOMAIN trace[t] : trace[t][i].e = "dial" /\ trace[t][i].ok

BothDialedAndReturned ==
    \A t \in Threads : Idle(t) /\ ret[t].op = "Command" /\ Dialed(t)

C15_UnserializedCommandsInterleave ==
    BothDialedAndReturned =>
        /\ Len(handles) = Cardinality(Threads)
        /\ LiveHandles = DOMAIN handles
        /\ conn \in LiveHandles
        /\ LiveHandles \ {conn} # {}
        /\ state = stateConnected
        /\ cbCount = Cardinality(Threads)
        /\ transitions < cbCount

C15_Witness ==
    /\ BothDialedAndReturned
    /\ \A t \in Threads : ret[t].kind = "ok"
    /\ \E h \in LiveHandles : h # conn /\ handles[h].open
    /\ cbCount > transitions
    /\ N("dial") + Len(SelectSeq(trace[CHOOSE t \in Threads : t # Caller],
                                 LAMBDA e : e.e = "dial")) = Cardinality(Threads)

(***************************************************************************)
(* C19: driven only through Command and Close, the instance has at most    *)
(* one open handle at any time: Command dials only when no handle it       *)
(* dialed earlier is still open, and an open handle is the one the         *)
(* instance holds (or the one Connect is about to store at line 71).       *)
(***************************************************************************)
C19_CommandCloseOneLiveHandle ==
    /\ Cardinality(LiveHandles) <= 1
    /\ At(Caller, "Connect", "n67") => LiveHandles = {}
    /\ \A h \in LiveHandles :
          \/ h = conn
          \/ At(Caller, "Connect", "n71") /\ Top(Caller).h = h

C19_Witness ==
    /\ Ended("Command")
    /\ Last.kind = "ok"
    /\ prev.op = "Command"
    /\ prev.kind = "err"
    /\ Len(handles) = 2
    /\ LiveHandles = {conn}
    /\ \E h \in DOMAIN handles : h # conn /\ ~handles[h].open /\ handles[h].wire # <<>>

(***************************************************************************)
(* C20: in a sequence of Command and Close calls made one at a time,       *)
(* Command reads and writes only with a handle present, and it writes the  *)
(* command and reads the response frame only on a handle that no Close has *)
(* closed, that is one dialed since the last Close.                        *)
(***************************************************************************)
C20_NoIOOnNilOrClosedHandle ==
    /\ (\E pc \in {"c115", "c123", "c128"} : At(Caller, "Command", pc)) => conn # NilConn
    /\ (\E pc \in {"c123", "c128"} : At(Caller, "Command", pc)) => IsOpen(conn)
    /\ crashed => Last.err # "nil conn"
    /\ \A j \in Idx("cmd") \cup Idx("frame") :
          /\ Events[j].h # NilConn
          /\ \A i \in Idx("close") : i < j => Events[i].h # Events[j].h

C20_Witness ==
    /\ Ended("Command")
    /\ Last.kind = "ok"
    /\ Last.body # <<>>
    /\ prev.op = "Close"
    /\ prev.kind = "ok"
    /\ N("dial") = 1
    /\ \E j \in Idx("frame") : Events[j].h = conn /\ IsOpen(conn)
    /\ \E h \in DOMAIN handles : h # conn /\ ~handles[h].open

(***************************************************************************)
(* C18: when the reconnect handler is invoked the state is already         *)
(* Connected and the instance holds the handle dialed in this call, open.  *)
(* A Command the handler issues on the instance, if it does not fail,      *)
(* dials nothing, sends no magic preamble and invokes no handler: the call *)
(* has then one dial, one preamble and one handler invocation in all.      *)
(***************************************************************************)
InnerReturned(kind) ==
    /\ At(Caller, "connectCallback", "cbret")
    /\ Last.op = "Command"
    /\ Last.kind = kind

C18_HandlerSeesConnected ==
    /\ At(Caller, "connectCallback", "cb") =>
          /\ state = stateConnected
          /\ IsOpen(conn)
          /\ Events[Len(Events)].e = "callback"
          /\ \E i \in Idx("dial") :
                /\ Events[i].ok
                /\ Events[i].h = conn
                /\ \A j \in Idx("dial") : j <= i
    /\ InnerReturned("ok") =>
          /\ \A i \in Idx("inner"), j \in DOMAIN Events :
                j > i => Events[j].e \notin {"dial", "magic", "callback", "inner"}
          /\ N("dial") = N("inner")
          /\ N("magic") = N("inner")
          /\ N("callback") = N("inner")
          /\ Len(stack[Caller]) = 2

C18_Witness ==
    /\ InnerReturned("ok")
    /\ Last.cmd # NilCmd
    /\ Last.body # <<>>
    /\ N("frame") = N("inner")
    /\ state = stateConnected

(***************************************************************************)
(* C17: every Command call eventually returns: with a body, with an empty  *)
(* result or with an error.                                                *)
(***************************************************************************)
Running(op) == ~Idle(Caller) /\ stack[Caller][1].op = op

C17_CommandEventuallyReturns == Running("Command") ~> Returned("Command")

\* What does hold of C17: the call always ends, by a return or by the panic
\* of line 151, and a frame read that returned a body took at most as many
\* reads of the transport as the declared length.
C17_CommandEnds == Running("Command") ~> Ended("Command")

C17_ReadsBounded ==
    \A i \in Idx("frame") :
        LET r == readResponseBounded(Events[i].s, maxBodySize)
        IN  r.kind = "ok" => r.reads <= 4 + Len(r.body)
=============================================================================
